---- MODULE Spec2Model ----
(***************************************************************************)
(* A model of fluxcli's resource synchronization layer (package k8s: the   *)
(* four list operations, suspend/resume/reconcile) and of the table view   *)
(* that displays its results (package ui, ResourceView).                   *)
(*                                                                         *)
(* Strings whose content the code inspects (error messages) are sequences  *)
(* of text fragments: concatenation is \o and strings.Contains is a        *)
(* contiguous-subsequence test, so wrapping a message keeps the phrases it *)
(* contains.                                                               *)
(***************************************************************************)
EXTENDS Integers, Sequences, FiniteSets, TLC

VARIABLES
    lop,        \* list layer: the list operation that ran ("none" before)
    handle,     \* list layer: the client handle the operation was called on
    ctxNil,     \* list layer: TRUE when the context passed was nil
    calls,      \* list layer: the list calls that reached the cluster, in order
    lres,       \* list layer: what the list operation returned
    store,      \* cluster: the one Flux object it holds
    served,     \* cluster: the API versions it serves
    clock,      \* wall clock, in half seconds
    mpc,        \* mutation: "idle", "got" (between c.Get and c.Update), "done"
    mop,        \* mutation: the operation called and its arguments
    fetched,    \* mutation: the object c.Get filled in
    mcalls,     \* mutation: the get and update calls of the operation, in order
    mres,       \* mutation: the error the operation returned
    config,         \* view: ResourceView.config (cfg.UI)
    resourceType,   \* view: ResourceView.resourceType
    resources,      \* view: ResourceView.resources
    width,          \* view: ResourceView.width
    height,         \* view: ResourceView.height
    columns,        \* view: the table's columns
    rows,           \* view: the table's rows
    tableHeight,    \* view: the table's height
    cursor          \* view: the table's cursor, the index of the selected row

lvars == <<lop, handle, ctxNil, calls, lres>>
mvars == <<store, served, clock, mpc, mop, fetched, mcalls, mres>>
vvars == <<config, resourceType, resources, width, height, columns, rows, tableHeight,
          cursor>>

vars == <<lop, handle, ctxNil, calls, lres,
          store, served, clock, mpc, mop, fetched, mcalls, mres,
          config, resourceType, resources, width, height, columns, rows, tableHeight,
          cursor>>

\* ------------------------------------------------------------------ bounds

\* Longest condition list carried by an object listed alone.
MaxConds == 2
\* Longest list response with several objects.
MaxItems == 2

\* ------------------------------------------------------------ entity model

ResourceTypeGitRepository == "GitRepository"
ResourceTypeHelmRepository == "HelmRepository"
ResourceTypeKustomization == "Kustomization"
ResourceTypeHelmRelease == "HelmRelease"

ResourceTypes ==
    {ResourceTypeGitRepository, ResourceTypeHelmRepository,
     ResourceTypeKustomization, ResourceTypeHelmRelease}

\* metav1.ConditionTrue
ConditionTrue == "True"

\* A status condition as the cluster reports it (metav1.Condition).
MkCond(t, s, r, m) == [type |-> t, status |-> s, reason |-> r, message |-> m]

ConditionSet ==
    { MkCond("Ready", "True", "Succeeded", "stored artifact"),
      MkCond("Ready", "False", "Failed", "reconciliation failed"),
      MkCond("Ready", "Unknown", "Progressing", "reconciliation in progress"),
      MkCond("Reconciling", "True", "ProgressingWithRetry", "retrying"),
      MkCond("Stalled", "False", "NotStalled", "") }

SeqsUpTo(S, n) == UNION { [1..k -> S] : k \in 0..n }

\* An object of a list response: metadata.name, spec.suspend, status.conditions.
MkObject(n, s, cs) == [name |-> n, suspend |-> s, conds |-> cs]

\* Objects listed alone carry every condition list up to MaxConds; objects of
\* longer lists carry at most one condition.
SingleObjects == { MkObject("a", FALSE, cs) : cs \in SeqsUpTo(ConditionSet, MaxConds) }
SmallObjects ==
    { MkObject("a", FALSE, cs) : cs \in SeqsUpTo(ConditionSet, 1) } \cup
    { MkObject("b", TRUE, cs) : cs \in SeqsUpTo(ConditionSet, 1) }

ItemLists ==
    SeqsUpTo(SingleObjects, 1) \cup
    UNION { [1..k -> SmallObjects] : k \in 2..MaxItems }

\* ------------------------------------------------------------------ errors

\* A Go error: nil, or a message with what errors.Unwrap reaches below it
\* (chain: the messages of the wrapped errors, outermost first) and whether
\* apierrors.IsNotFound holds for it (it looks through the chain).
NilErr == [nil |-> TRUE, msg |-> <<>>, notFound |-> FALSE, chain |-> <<>>]
MkErr(m, nf) == [nil |-> FALSE, msg |-> m, notFound |-> nf, chain |-> <<>>]

\* fmt.Errorf(prefix + "%w", e)
Wrapf(prefix, e) ==
    [nil |-> FALSE, msg |-> prefix \o e.msg, notFound |-> e.notFound,
     chain |-> <<e.msg>> \o e.chain]

\* fmt.Errorf(prefix + "%v", e): the text only
Textf(prefix, e) == MkErr(prefix \o e.msg, FALSE)

\* strings.Contains
Contains(s, sub) ==
    \E i \in 0..(Len(s) - Len(sub)) : SubSeq(s, i + 1, i + Len(sub)) = sub

\* errors.Is(e, target) for a target that is one of the failures below
Wraps(e, target) ==
    ~e.nil /\ (e.msg = target.msg \/ \E i \in 1..Len(e.chain) : e.chain[i] = target.msg)

\* The phrases the list operations look for.
NoMatchesForKind == <<"no matches for kind">>
CouldNotFind == <<"could not find the requested resource">>
ServerCouldNotFind == <<"the server ", "could not find the requested resource">>

\* Failures a list call can return.
ErrNotFound == MkErr(<<"helmrepositories.source.toolkit.fluxcd.io not found">>, TRUE)
ErrNoMatch == MkErr(NoMatchesForKind \o <<" \"HelmRepository\" in version \"v1beta2\"">>, FALSE)
ErrServerCouldNotFind == MkErr(ServerCouldNotFind, FALSE)
ErrConnRefused == MkErr(<<"dial tcp 10.0.0.1:6443: connect: connection refused">>, FALSE)
ErrForbidden == MkErr(<<"helmrepositories is forbidden">>, FALSE)

ListFailures == {ErrNotFound, ErrNoMatch, ErrServerCouldNotFind, ErrConnRefused, ErrForbidden}

\* Values a list call can panic with; %v prints their message.
PanicNilDeref == MkErr(<<"runtime error: invalid memory address or nil pointer dereference">>, FALSE)
PanicNoMatch == MkErr(<<"reflect: ">> \o NoMatchesForKind \o <<" list">>, FALSE)
PanicNotFoundErr == ErrNotFound

PanicValues == {PanicNilDeref, PanicNoMatch, PanicNotFoundErr}

\* What the cluster client does with one list call.
OkOutcome(items) == [kind |-> "ok", items |-> items, err |-> NilErr]
ErrOutcome(e) == [kind |-> "err", items |-> <<>>, err |-> e]
PanicOutcome(r) == [kind |-> "panic", items |-> <<>>, err |-> r]

Outcomes ==
    { OkOutcome(items) : items \in ItemLists } \cup
    { ErrOutcome(e) : e \in ListFailures } \cup
    { PanicOutcome(r) : r \in PanicValues }

\* Client handles: a connected client, a nil *Client, a *Client whose
\* embedded client is nil.
Handles == {"ok", "nil", "nilEmbedded"}

\* ------------------------------------------------------ list: shared parts

GitRepositoryV1 == "source.toolkit.fluxcd.io/v1 GitRepositoryList"
HelmRepositoryV1beta2 == "source.toolkit.fluxcd.io/v1beta2 HelmRepositoryList"
HelmRepositoryV1 == "source.toolkit.fluxcd.io/v1 HelmRepositoryList"
KustomizationV1 == "kustomize.toolkit.fluxcd.io/v1 KustomizationList"
HelmReleaseV2beta1 == "helm.toolkit.fluxcd.io/v2beta1 HelmReleaseList"

PanicPrefix == <<"panic in kubernetes client list operation: ">>

\* safeList: the error c.List returns, or the recovered panic as an error.
\* On a nil handle c.List itself dereferences nil, inside the deferred recover.
safeList(h, o) ==
    IF h # "ok" THEN Textf(PanicPrefix, PanicNilDeref)
    ELSE IF o.kind = "panic" THEN Textf(PanicPrefix, o.err)
    ELSE IF o.kind = "err" THEN o.err
    ELSE NilErr

\* The call safeList hands to the cluster client: none on a nil handle.
ListCall(h, version, cn, o) ==
    IF h # "ok" THEN <<>>
    ELSE <<[version |-> version, ctxNil |-> cn, outcome |-> o, err |-> safeList(h, o)]>>

\* Condition{Type: cond.Type, Status: string(cond.Status), Reason: ..., Message: ...}
CopyCondition(cond) == MkCond(cond.type, cond.status, cond.reason, cond.message)

CopyConditions(conds) == [i \in 1..Len(conds) |-> CopyCondition(conds[i])]

\* Ready, Status and Message of a Resource before any condition is read.
ZeroStatus == [ready |-> FALSE, status |-> "", message |-> ""]

\* Mutant of ReadyStep: the test of the condition's type is missing.
ReadyStepAnyType(acc, cond) ==
    [ready |-> cond.status = ConditionTrue, status |-> cond.reason,
     message |-> cond.message]

\* if cond.Type == "Ready" { Ready = cond.Status == True; Status = cond.Reason; ... }
ReadyStep(acc, cond) ==
    IF cond.type = "Ready"
    THEN [ready |-> cond.status = ConditionTrue, status |-> cond.reason,
          message |-> cond.message]
    ELSE acc

\* The loop over Status.Conditions of GitRepository, Kustomization, HelmRelease.
RECURSIVE ParseStatus(_, _, _)
ParseStatus(conds, i, acc) ==
    IF i > Len(conds) THEN acc
    ELSE ParseStatus(conds, i + 1, ReadyStep(acc, conds[i]))

\* if len(conds) > 0 { lastCond := conds[len-1]; Status = string(lastCond.Status); ... }
LastConditionStatus(conds) ==
    IF Len(conds) > 0
    THEN LET lastCond == conds[Len(conds)]
         IN [ready |-> lastCond.status = ConditionTrue,
             status |-> lastCond.status, message |-> lastCond.message]
    ELSE ZeroStatus

\* The zero value of the Resource struct (time.Duration in whole seconds).
ZeroResource ==
    [type |-> "", name |-> "", namespace |-> "", ready |-> FALSE, status |-> "",
     message |-> "", age |-> 0, conditions |-> <<>>, suspended |-> FALSE,
     source |-> "", path |-> "", revision |-> "", url |-> "", chart |-> "",
     version |-> ""]

MkResource(type, obj, st) ==
    [ZeroResource EXCEPT
        !.type = type, !.name = obj.name, !.suspended = obj.suspend,
        !.ready = st.ready, !.status = st.status, !.message = st.message,
        !.conditions = CopyConditions(obj.conds)]

\* What a list operation returns: ([]Resource, error).
NoResult == [resources |-> <<>>, nilSlice |-> TRUE, err |-> NilErr]
OkResult(rs) == [resources |-> rs, nilSlice |-> FALSE, err |-> NilErr]
ErrResult(e) == [resources |-> <<>>, nilSlice |-> TRUE, err |-> e]

\* --------------------------------------------------- list: classification

\* isCRDMissing of ListGitRepositories
isCRDMissingGit(err) ==
    err.notFound \/
    (err.msg # <<>> /\ (Contains(err.msg, NoMatchesForKind) \/
                        Contains(err.msg, CouldNotFind) \/
                        Contains(err.msg, ServerCouldNotFind)))

\* Mutant of isCRDMissingHelm: the message is not looked at.
isCRDMissingHelmNotFoundOnly(listErr) == listErr.notFound

\* isCRDMissing of ListHelmRepositories (the v1beta2 list)
isCRDMissingHelm(listErr) ==
    listErr.notFound \/
    (listErr.msg # <<>> /\ (Contains(listErr.msg, NoMatchesForKind) \/
                            Contains(listErr.msg, CouldNotFind) \/
                            Contains(listErr.msg, ServerCouldNotFind)))

\* Mutant of isV1CRDMissing: the not-found predicate is not applied.
isV1CRDMissingPhrasesOnly(errV1) ==
    errV1.msg # <<>> /\ (Contains(errV1.msg, NoMatchesForKind) \/
                         Contains(errV1.msg, CouldNotFind) \/
                         Contains(errV1.msg, ServerCouldNotFind))

\* isV1CRDMissing of ListHelmRepositories (the v1 list)
isV1CRDMissing(errV1) ==
    errV1.notFound \/
    (errV1.msg # <<>> /\ (Contains(errV1.msg, NoMatchesForKind) \/
                          Contains(errV1.msg, CouldNotFind) \/
                          Contains(errV1.msg, ServerCouldNotFind)))

\* Mutant of isCRDMissingKs: only the first of the three phrases is looked for.
isCRDMissingKsFirstPhraseOnly(err) ==
    err.notFound \/ (err.msg # <<>> /\ Contains(err.msg, NoMatchesForKind))

\* isCRDMissing of ListKustomizations
isCRDMissingKs(err) ==
    err.notFound \/
    (err.msg # <<>> /\ (Contains(err.msg, NoMatchesForKind) \/
                        Contains(err.msg, CouldNotFind) \/
                        Contains(err.msg, ServerCouldNotFind)))

\* isCRDMissing of ListHelmReleases
isCRDMissingHr(err) ==
    err.notFound \/
    (err.msg # <<>> /\ (Contains(err.msg, NoMatchesForKind) \/
                        Contains(err.msg, CouldNotFind) \/
                        Contains(err.msg, ServerCouldNotFind)))

\* ------------------------------------------------- list: the four operations

\* Mutant of GitResources: each Resource is put in front of the ones before it.
GitResourcesPrepend(items) ==
    [i \in 1..Len(items) |->
        MkResource(ResourceTypeGitRepository, items[Len(items) + 1 - i],
                   ParseStatus(items[Len(items) + 1 - i].conds, 1, ZeroStatus))]

GitResources(items) ==
    [i \in 1..Len(items) |->
        MkResource(ResourceTypeGitRepository, items[i],
                   ParseStatus(items[i].conds, 1, ZeroStatus))]

KustomizationResources(items) ==
    [i \in 1..Len(items) |->
        MkResource(ResourceTypeKustomization, items[i],
                   ParseStatus(items[i].conds, 1, ZeroStatus))]

HelmReleaseResources(items) ==
    [i \in 1..Len(items) |->
        MkResource(ResourceTypeHelmRelease, items[i],
                   ParseStatus(items[i].conds, 1, ZeroStatus))]

\* "Convert v1 results to our format"
HelmRepositoryResourcesV1(items) ==
    [i \in 1..Len(items) |->
        MkResource(ResourceTypeHelmRepository, items[i],
                   LastConditionStatus(items[i].conds))]

\* "Process v1beta2 results normally"
HelmRepositoryResourcesV1beta2(items) ==
    [i \in 1..Len(items) |->
        MkResource(ResourceTypeHelmRepository, items[i],
                   LastConditionStatus(items[i].conds))]

\* What ListGitRepositories returns once safeList returned err for outcome o.
GitResult(err, o) ==
    IF ~err.nil
    THEN IF isCRDMissingGit(err)
         THEN OkResult(<<>>)
         ELSE ErrResult(Wrapf(<<"failed to list GitRepositories: ">>, err))
    ELSE OkResult(GitResources(o.items))

KustomizationResult(err, o) ==
    IF ~err.nil
    THEN IF isCRDMissingKs(err)
         THEN OkResult(<<>>)
         ELSE ErrResult(Wrapf(<<"failed to list Kustomizations: ">>, err))
    ELSE OkResult(KustomizationResources(o.items))

HelmReleaseResult(err, o) ==
    IF ~err.nil
    THEN IF isCRDMissingHr(err)
         THEN OkResult(<<>>)
         ELSE ErrResult(Wrapf(<<"failed to list HelmReleases: ">>, err))
    ELSE OkResult(HelmReleaseResources(o.items))

\* fmt.Errorf("... (tried v1beta2 and v1): v1beta2=%w, v1=%v", listErr, errV1)
FallbackError(listErr, errV1) ==
    [nil |-> FALSE,
     msg |-> <<"failed to list HelmRepositories (tried v1beta2 and v1): v1beta2=">>
             \o listErr.msg \o <<", v1=">> \o errV1.msg,
     notFound |-> listErr.notFound,
     chain |-> <<listErr.msg>> \o listErr.chain]

\* Mutant of HelmFallbackResult: every failure of the v1 list counts as a
\* missing kind.
HelmFallbackResultSwallow(listErr, errV1, o2) ==
    IF ~errV1.nil
    THEN OkResult(<<>>)
    ELSE OkResult(HelmRepositoryResourcesV1(o2.items))

\* The v1 branch of ListHelmRepositories, entered with the v1beta2 error.
HelmFallbackResult(listErr, errV1, o2) ==
    IF ~errV1.nil
    THEN IF isV1CRDMissing(errV1)
         THEN OkResult(<<>>)
         ELSE ErrResult(FallbackError(listErr, errV1))
    ELSE OkResult(HelmRepositoryResourcesV1(o2.items))

\* The safety checks at the head of ListHelmRepositories.
HelmGuard(h, cn) ==
    IF h = "nil" THEN MkErr(<<"kubernetes client is nil">>, FALSE)
    ELSE IF h = "nilEmbedded" THEN MkErr(<<"embedded kubernetes client is nil">>, FALSE)
    ELSE IF cn THEN MkErr(<<"context is nil">>, FALSE)
    ELSE NilErr

ListDone(name, h, cn, cs, res) ==
    /\ lop' = name
    /\ handle' = h
    /\ ctxNil' = cn
    /\ calls' = cs
    /\ lres' = res
    /\ UNCHANGED <<mvars, vvars>>

ListGitRepositories ==
    /\ lop = "none"
    /\ \E h \in Handles, cn \in BOOLEAN, o \in Outcomes :
          ListDone("ListGitRepositories", h, cn,
                   ListCall(h, GitRepositoryV1, cn, o),
                   GitResult(safeList(h, o), o))

ListKustomizations ==
    /\ lop = "none"
    /\ \E h \in Handles, cn \in BOOLEAN, o \in Outcomes :
          ListDone("ListKustomizations", h, cn,
                   ListCall(h, KustomizationV1, cn, o),
                   KustomizationResult(safeList(h, o), o))

ListHelmReleases ==
    /\ lop = "none"
    /\ \E h \in Handles, cn \in BOOLEAN, o \in Outcomes :
          ListDone("ListHelmReleases", h, cn,
                   ListCall(h, HelmReleaseV2beta1, cn, o),
                   HelmReleaseResult(safeList(h, o), o))

ListHelmRepositories ==
    /\ lop = "none"
    /\ \E h \in Handles, cn \in BOOLEAN, o1 \in Outcomes :
          LET guard == HelmGuard(h, cn)
              listErr == safeList(h, o1)
              c1 == ListCall(h, HelmRepositoryV1beta2, cn, o1)
          IN  IF ~guard.nil
              THEN ListDone("ListHelmRepositories", h, cn, <<>>, ErrResult(guard))
              ELSE IF listErr.nil
              THEN ListDone("ListHelmRepositories", h, cn, c1,
                            OkResult(HelmRepositoryResourcesV1beta2(o1.items)))
              ELSE IF isCRDMissingHelm(listErr)
              THEN \E o2 \in Outcomes :
                      ListDone("ListHelmRepositories", h, cn,
                               c1 \o ListCall(h, HelmRepositoryV1, cn, o2),
                               HelmFallbackResult(listErr, safeList(h, o2), o2))
              ELSE ListDone("ListHelmRepositories", h, cn, c1,
                            ErrResult(Wrapf(<<"failed to list HelmRepositories (v1beta2): ">>,
                                            listErr)))

\* --------------------------------------------------------------- cluster

\* The annotation ReconcileResource writes.
ReconcileAnnotation == "reconcile.fluxcd.io/requestedAt"

NoAnnotations == [k \in {} |-> ""]

\* An object in the cluster: metadata (name, annotations, resourceVersion),
\* spec.suspend and status.conditions.
MkStored(kind, n, susp, conds, ann, rv) ==
    [kind |-> kind, name |-> n, suspend |-> susp, conds |-> conds,
     annotations |-> ann, rv |-> rv]

\* The zero value of the typed object handed to c.Get.
NoObject == MkStored("", "", FALSE, <<>>, NoAnnotations, 0)

\* The API version the mutation operations use for each kind.
MutationVersion(type) ==
    IF type = ResourceTypeGitRepository THEN "source.toolkit.fluxcd.io/v1"
    ELSE IF type = ResourceTypeHelmRepository THEN "source.toolkit.fluxcd.io/v1beta2"
    ELSE IF type = ResourceTypeKustomization THEN "kustomize.toolkit.fluxcd.io/v1"
    ELSE "helm.toolkit.fluxcd.io/v2beta1"

\* Every version of every kind, and the sets a cluster can serve: all of
\* them, or all but the v1beta2 HelmRepository (an older source-controller).
AllVersions ==
    { <<t, MutationVersion(t)>> : t \in ResourceTypes } \cup
    { <<ResourceTypeHelmRepository, "source.toolkit.fluxcd.io/v1">> }
ServedSets ==
    { AllVersions,
      AllVersions \ { <<ResourceTypeHelmRepository, "source.toolkit.fluxcd.io/v1beta2">> } }

ErrConflict ==
    MkErr(<<"Operation cannot be fulfilled: the object has been modified; ",
            "please apply your changes to the latest version and try again">>, FALSE)

\* Failures of the transport, whatever the cluster holds.
TransportFailures == {ErrConnRefused}

\* c.Get(ctx, key, obj): the failure f of the transport if any; no match
\* when the version is not served; not found unless the object is there.
ClusterGet(type, n, f) ==
    IF ~f.nil THEN [obj |-> NoObject, err |-> f]
    ELSE IF <<type, MutationVersion(type)>> \notin served
    THEN [obj |-> NoObject, err |-> ErrNoMatch]
    ELSE IF store.kind = type /\ store.name = n
    THEN [obj |-> store, err |-> NilErr]
    ELSE [obj |-> NoObject, err |-> ErrNotFound]

\* c.Update(ctx, obj): refused on a transport failure and on a stale
\* resourceVersion; otherwise obj replaces the stored object under a new
\* resourceVersion.
ClusterUpdate(obj, f) ==
    IF ~f.nil THEN [store |-> store, err |-> f]
    ELSE IF obj.rv # store.rv THEN [store |-> store, err |-> ErrConflict]
    ELSE [store |-> [obj EXCEPT !.rv = obj.rv + 1], err |-> NilErr]

\* time.Now().UTC().Format(time.RFC3339): whole seconds.
FormatRFC3339(t) == "2026-01-01T00:00:0" \o ToString(t \div 2) \o "Z"

\* ------------------------------------------------------------- mutations

\* Largest resourceVersion and latest clock reading explored.
MaxRV == 3
MaxClock == 2

\* Resource types a caller can pass; the last one is none of the four.
MutationTypes == ResourceTypes \cup {"ResourceSet"}
Names == {"a", "b"}

MkMop(fn, type, n, susp) == [fn |-> fn, type |-> type, name |-> n, suspend |-> susp]
NoMop == MkMop("none", "", "", FALSE)

GetCall(type, n, g) ==
    [verb |-> "get", version |-> MutationVersion(type), name |-> n,
     obj |-> g.obj, err |-> g.err]
UpdateCall(type, obj, e) ==
    [verb |-> "update", version |-> MutationVersion(type), name |-> obj.name,
     obj |-> obj, err |-> e]

\* Mutant of MutationGet: a HelmRepository whose version is not served is
\* fetched again at source.toolkit.fluxcd.io/v1, as the list operation does.
MutationGetWithFallback(fn, type, n, susp, f) ==
    /\ mpc \in {"idle", "done"}
    /\ store.rv < MaxRV
    /\ mop' = MkMop(fn, type, n, susp)
    /\ IF type \notin ResourceTypes
       THEN /\ mcalls' = <<>>
            /\ fetched' = NoObject
            /\ mres' = MkErr(<<"unsupported resource type: ", type>>, FALSE)
            /\ mpc' = "done"
       ELSE LET g == ClusterGet(type, n, f)
                again == type = ResourceTypeHelmRepository /\ g.err = ErrNoMatch
                found == /\ <<type, "source.toolkit.fluxcd.io/v1">> \in served
                         /\ store.kind = type /\ store.name = n
                g2 == IF found THEN [obj |-> store, err |-> NilErr]
                      ELSE [obj |-> NoObject, err |-> ErrNotFound]
                last == IF again THEN g2 ELSE g
            IN  /\ mcalls' = IF again
                             THEN <<GetCall(type, n, g),
                                    [verb |-> "get", version |-> "source.toolkit.fluxcd.io/v1",
                                     name |-> n, obj |-> g2.obj, err |-> g2.err]>>
                             ELSE <<GetCall(type, n, g)>>
                /\ fetched' = last.obj
                /\ IF ~last.err.nil
                   THEN /\ mres' = Wrapf(<<"failed to get ", type, "/", n, ": ">>, last.err)
                        /\ mpc' = "done"
                   ELSE /\ mres' = NilErr
                        /\ mpc' = "got"
    /\ UNCHANGED <<store, served, clock, lvars, vvars>>

\* The first half of updateSuspendStatus and of ReconcileResource: the switch
\* on the resource type and c.Get.
MutationGet(fn, type, n, susp, f) ==
    /\ mpc \in {"idle", "done"}
    /\ store.rv < MaxRV
    /\ mop' = MkMop(fn, type, n, susp)
    /\ IF type \notin ResourceTypes
       THEN /\ mcalls' = <<>>
            /\ fetched' = NoObject
            /\ mres' = MkErr(<<"unsupported resource type: ", type>>, FALSE)
            /\ mpc' = "done"
       ELSE LET g == ClusterGet(type, n, f)
            IN  /\ mcalls' = <<GetCall(type, n, g)>>
                /\ fetched' = g.obj
                /\ IF ~g.err.nil
                   THEN /\ mres' = Wrapf(<<"failed to get ", type, "/", n, ": ">>, g.err)
                        /\ mpc' = "done"
                   ELSE /\ mres' = NilErr
                        /\ mpc' = "got"
    /\ UNCHANGED <<store, served, clock, lvars, vvars>>

\* repo.Spec.Suspend = suspend
SuspendWritten(obj, susp) == [obj EXCEPT !.suspend = susp]

SetAnnotation(ann, k, v) ==
    [x \in (DOMAIN ann) \cup {k} |-> IF x = k THEN v ELSE ann[x]]

\* Mutant of ReconcileWritten: the annotations are a fresh map.
ReconcileWrittenFreshMap(obj, now) ==
    [obj EXCEPT !.annotations = SetAnnotation(NoAnnotations, ReconcileAnnotation,
                                              FormatRFC3339(now))]

\* annotations[...requestedAt] = now; obj.SetAnnotations(annotations)
ReconcileWritten(obj, now) ==
    [obj EXCEPT !.annotations = SetAnnotation(obj.annotations, ReconcileAnnotation,
                                              FormatRFC3339(now))]

\* Mutant of MutationWrite: a refused update is followed by an update of the
\* object as the cluster now holds it.
MutationWriteRetry(type, n, written, f) ==
    LET u == ClusterUpdate(written, f)
        again == [written EXCEPT !.rv = store.rv]
        u2 == ClusterUpdate(again, f)
    IN  IF u.err.nil
        THEN [store |-> u.store, calls |-> <<UpdateCall(type, written, u.err)>>,
              err |-> NilErr]
        ELSE [store |-> u2.store,
              calls |-> <<UpdateCall(type, written, u.err), UpdateCall(type, again, u2.err)>>,
              err |-> IF ~u2.err.nil
                      THEN Wrapf(<<"failed to update ", type, "/", n, ": ">>, u2.err)
                      ELSE NilErr]

\* c.Update and the return that follows it.
MutationWrite(type, n, written, f) ==
    LET u == ClusterUpdate(written, f)
    IN  [store |-> u.store,
         calls |-> <<UpdateCall(type, written, u.err)>>,
         err |-> IF ~u.err.nil
                 THEN Wrapf(<<"failed to update ", type, "/", n, ": ">>, u.err)
                 ELSE NilErr]

\* The second half of a mutation: c.Update of the object written.
MutationUpdate(written, f) ==
    LET w == MutationWrite(mop.type, mop.name, written, f)
    IN  /\ store' = w.store
        /\ mcalls' = mcalls \o w.calls
        /\ mres' = w.err
        /\ mpc' = "done"
        /\ UNCHANGED <<served, clock, mop, fetched, lvars, vvars>>

SuspendResource ==
    \E type \in MutationTypes, n \in Names, f \in TransportFailures \cup {NilErr} :
        MutationGet("SuspendResource", type, n, TRUE, f)

ResumeResource ==
    \E type \in MutationTypes, n \in Names, f \in TransportFailures \cup {NilErr} :
        MutationGet("ResumeResource", type, n, FALSE, f)

ReconcileResource ==
    \E type \in MutationTypes, n \in Names, f \in TransportFailures \cup {NilErr} :
        MutationGet("ReconcileResource", type, n, FALSE, f)

\* updateSuspendStatus from the type switch after c.Get to its return.
updateSuspendStatusUpdate ==
    /\ mpc = "got"
    /\ mop.fn \in {"SuspendResource", "ResumeResource"}
    /\ \E f \in TransportFailures \cup {NilErr} :
          MutationUpdate(SuspendWritten(fetched, mop.suspend), f)

\* ReconcileResource from obj.GetAnnotations() to its return.
ReconcileResourceUpdate ==
    /\ mpc = "got"
    /\ mop.fn = "ReconcileResource"
    /\ \E f \in TransportFailures \cup {NilErr} :
          MutationUpdate(ReconcileWritten(fetched, clock), f)

\* Another writer (the controller that owns the object, another user)
\* updates the object: it gets a new resourceVersion.
ConcurrentModification ==
    /\ store.rv < MaxRV - 1
    /\ store' = [store EXCEPT !.rv = store.rv + 1]
    /\ UNCHANGED <<served, clock, mpc, mop, fetched, mcalls, mres, lvars, vvars>>

Tick ==
    /\ clock < MaxClock
    /\ clock' = clock + 1
    /\ UNCHANGED <<store, served, mpc, mop, fetched, mcalls, mres, lvars, vvars>>

\* ------------------------------------------------------------------ view

\* Longest resource sequence handed to the view.
MaxResources == 2

\* The marker appended to a truncated cell (the one character U+2026).
Ellipsis == "..."

\* int(x) of a quotient of non-negative or negative operands: towards zero.
TruncDiv(a, b) == IF a >= 0 THEN a \div b ELSE -((-a) \div b)

\* Mutant of formatAge: each unit also takes its upper limit.
formatAgeInclusive(d) ==
    IF d <= 60 THEN ToString(d) \o "s"
    ELSE IF d <= 3600 THEN ToString(TruncDiv(d, 60)) \o "m"
    ELSE IF d <= 24 * 3600 THEN ToString(TruncDiv(d, 3600)) \o "h"
    ELSE ToString(TruncDiv(d, 24 * 3600)) \o "d"

\* formatAge, the duration d in whole seconds.
formatAge(d) ==
    IF d < 60 THEN ToString(d) \o "s"
    ELSE IF d < 3600 THEN ToString(TruncDiv(d, 60)) \o "m"
    ELSE IF d < 24 * 3600 THEN ToString(TruncDiv(d, 3600)) \o "h"
    ELSE ToString(TruncDiv(d, 24 * 3600)) \o "d"

\* createTableRow: the name cell
RowName(cfg, resource) ==
    IF cfg.ShowNamespace /\ resource.namespace # ""
    THEN resource.namespace \o "/" \o resource.name
    ELSE resource.name

\* Mutant of RowStatus: a status of exactly 12 characters is cut as well.
RowStatusCutsTwelve(resource) ==
    LET s1 == IF resource.status = "" THEN "Unknown" ELSE resource.status
        s2 == IF resource.suspended THEN "Suspended" ELSE s1
    IN  IF Len(s2) >= 12 THEN SubSeq(s2, 1, 9) \o Ellipsis ELSE s2

\* createTableRow: the status cell
RowStatus(resource) ==
    LET s1 == IF resource.status = "" THEN "Unknown" ELSE resource.status
        s2 == IF resource.suspended THEN "Suspended" ELSE s1
    IN  IF Len(s2) > 12 THEN SubSeq(s2, 1, 9) \o Ellipsis ELSE s2

\* createTableRow: the message cell
RowMessage(resource) ==
    IF Len(resource.message) > 35
    THEN SubSeq(resource.message, 1, 32) \o Ellipsis
    ELSE resource.message

createTableRow(cfg, type, resource) ==
    LET name == RowName(cfg, resource)
        ready == IF resource.ready THEN "True" ELSE "False"
        status == RowStatus(resource)
        age == formatAge(resource.age)
        message == RowMessage(resource)
    IN  IF type \in {ResourceTypeGitRepository, ResourceTypeHelmRepository}
        THEN <<name, ready, status, age, message, resource.url>>
        ELSE IF type = ResourceTypeKustomization
        THEN <<name, ready, status, age, message,
               IF resource.path # "" THEN resource.source \o "/" \o resource.path
               ELSE resource.source>>
        ELSE IF type = ResourceTypeHelmRelease
        THEN <<name, ready, status, age, message,
               IF resource.version # "" THEN resource.chart \o ":" \o resource.version
               ELSE resource.chart>>
        ELSE <<name, ready, status, age, message>>

MkColumn(title, w) == [title |-> title, width |-> w]

\* Mutant of BaseColumns: the switch has no case for HelmRelease.
BaseColumnsNoChart(cfg, type) ==
    << MkColumn("Name", cfg.ColumnsName), MkColumn("Ready", 8),
       MkColumn("Status", cfg.ColumnsStatus), MkColumn("Age", 10),
       MkColumn("Message", 35) >> \o
    ( IF type \in {ResourceTypeGitRepository, ResourceTypeHelmRepository}
      THEN <<MkColumn("URL", 40)>>
      ELSE IF type = ResourceTypeKustomization THEN <<MkColumn("Source/Path", 30)>>
      ELSE <<>> )

\* updateTableColumns: baseColumns with the column of the resource type
BaseColumns(cfg, type) ==
    << MkColumn("Name", cfg.ColumnsName), MkColumn("Ready", 8),
       MkColumn("Status", cfg.ColumnsStatus), MkColumn("Age", 10),
       MkColumn("Message", 35) >> \o
    ( IF type \in {ResourceTypeGitRepository, ResourceTypeHelmRepository}
      THEN <<MkColumn("URL", 40)>>
      ELSE IF type = ResourceTypeKustomization THEN <<MkColumn("Source/Path", 30)>>
      ELSE IF type = ResourceTypeHelmRelease THEN <<MkColumn("Chart", 25)>>
      ELSE <<>> )

IsFlexColumn(col) == col.title \in {"Message", "URL", "Source/Path"}

RECURSIVE SumWidths(_, _)
SumWidths(cols, i) ==
    IF i > Len(cols) THEN 0
    ELSE (IF IsFlexColumn(cols[i]) THEN 0 ELSE cols[i].width) + SumWidths(cols, i + 1)

FlexColumns(cols) == Cardinality({ i \in 1..Len(cols) : IsFlexColumn(cols[i]) })

\* availableWidth / flexColumns, Go's integer division
FlexWidth(cols, w) == TruncDiv(w - SumWidths(cols, 1) - 10, FlexColumns(cols))

\* for _, col := range baseColumns { if flexible { col.Width = flexWidth } }:
\* col is a copy of the element, so baseColumns keeps its widths.
AssignFlexWidth(cols, flexWidth) == cols

\* Mutant of TableColumns: the flexible columns take the computed width
\* whenever the width is positive, without the test against the minimum.
TableColumnsNoMinimum(cfg, type, w) ==
    LET baseColumns == BaseColumns(cfg, type)
    IN  IF w > 0 /\ FlexColumns(baseColumns) > 0
        THEN [i \in 1..Len(baseColumns) |->
                IF IsFlexColumn(baseColumns[i])
                THEN MkColumn(baseColumns[i].title, FlexWidth(baseColumns, w))
                ELSE baseColumns[i]]
        ELSE baseColumns

\* The columns updateTableColumns hands to table.SetColumns.
TableColumns(cfg, type, w) ==
    LET baseColumns == BaseColumns(cfg, type)
    IN  IF w > 0 /\ FlexColumns(baseColumns) > 0 /\ FlexWidth(baseColumns, w) > 20
        THEN AssignFlexWidth(baseColumns, FlexWidth(baseColumns, w))
        ELSE baseColumns

updateTableColumns == columns' = TableColumns(config, resourceType', width')

\* The table widget (github.com/charmbracelet/bubbles/table), which the view
\* imports: its cursor is the index of the selected row, from 0.

\* table.SetRows: the cursor is preserved across a refresh of the rows.
TableSetRows(cur, rws) == cur

\* table.GotoTop, table.GotoBottom: the first and the last row.
TableGotoTop(cur, rws) == 0
TableGotoBottom(cur, rws) == Len(rws) - 1

Clamp(v, low, high) == IF v < low THEN low ELSE IF v > high THEN high ELSE v

\* table.MoveDown(n), table.MoveUp(n): n rows, stopping at the last or first
\* row; nothing moves in a table without rows.
TableMoveDown(cur, rws, n) ==
    IF Len(rws) = 0 THEN cur ELSE Clamp(cur + n, 0, Len(rws) - 1)
TableMoveUp(cur, rws, n) ==
    IF Len(rws) = 0 THEN cur ELSE Clamp(cur - n, 0, Len(rws) - 1)

\* The rows a page key moves by: the height of the table.
PageStep(th) == IF th > 0 THEN th ELSE 0

\* table.Update(tea.KeyMsg{Type: msgType}): the cursor after the key. The
\* table has rows only; the horizontal keys move nothing.
TableUpdate(msgType, cur, rws, th) ==
    CASE msgType = "down" -> TableMoveDown(cur, rws, 1)
      [] msgType = "up" -> TableMoveUp(cur, rws, 1)
      [] msgType = "pgdown" -> TableMoveDown(cur, rws, PageStep(th))
      [] msgType = "pgup" -> TableMoveUp(cur, rws, PageStep(th))
      [] OTHER -> cur

\* Mutant of updateTable: the refreshed table starts from its first row.
updateTableFromTop ==
    /\ rows' = [i \in 1..Len(resources') |->
                    createTableRow(config, resourceType', resources'[i])]
    /\ cursor' = 0

updateTable ==
    /\ rows' = [i \in 1..Len(resources') |->
                    createTableRow(config, resourceType', resources'[i])]
    /\ cursor' = TableSetRows(cursor, rows')

\* The Resources handed to the view: one per kind as a list returns them,
\* and one with a namespace, suspended, with a long status and message.
ViewResources ==
    { [ZeroResource EXCEPT !.type = t, !.name = "a", !.ready = TRUE,
                           !.status = "Succeeded", !.age = 45,
                           !.message = "stored artifact",
                           !.url = "https://example.com/repo"]
        : t \in {ResourceTypeGitRepository, ResourceTypeHelmRepository} } \cup
    { [ZeroResource EXCEPT !.type = ResourceTypeKustomization, !.name = "a",
                           !.ready = TRUE, !.status = "ReconciliationSucceeded",
                           !.age = 3700, !.message = "Applied revision: main@sha1:abc",
                           !.source = "flux-system", !.path = "./clusters"],
      [ZeroResource EXCEPT !.type = ResourceTypeHelmRelease, !.name = "a",
                           !.age = 90, !.source = "podinfo",
                           !.chart = "podinfo", !.version = "6.0.0"],
      [ZeroResource EXCEPT !.type = ResourceTypeKustomization, !.name = "b",
                           !.namespace = "flux-system", !.suspended = TRUE,
                           !.status = "BuildFailed", !.age = 90000,
                           !.message = "kustomize build failed: accumulating resources",
                           !.source = "flux-system"] }

Widths == {-1, 0, 80, 120, 200}
Heights == {0, 24}

\* SetResources(rs)
SetResourcesTo(rs) ==
    /\ resources' = rs
    /\ UNCHANGED <<config, resourceType, width, height, tableHeight>>
    /\ updateTableColumns
    /\ updateTable
    /\ UNCHANGED <<lvars, mvars>>

\* SetResourceType(type)
SetResourceTypeTo(type) ==
    /\ resourceType' = type
    /\ UNCHANGED <<config, resources, width, height, tableHeight>>
    /\ updateTableColumns
    /\ updateTable
    /\ UNCHANGED <<lvars, mvars>>

\* SetSize(w, h)
SetSizeTo(w, h) ==
    /\ width' = w
    /\ height' = h
    /\ tableHeight' = h - 2
    /\ UNCHANGED <<config, resourceType, resources, rows, cursor>>
    /\ updateTableColumns
    /\ UNCHANGED <<lvars, mvars>>

SetResources == \E rs \in SeqsUpTo(ViewResources, MaxResources) : SetResourcesTo(rs)

SetResourceType == \E type \in ResourceTypes : SetResourceTypeTo(type)

SetSize == \E w \in Widths, h \in Heights : SetSizeTo(w, h)

\* Mutant of View: the placeholder names the kind a new view starts with.
ViewNamesFirstKind(type, rs, cols, rws, cur) ==
    IF Len(rs) = 0
    THEN [shows |-> "placeholder",
          text |-> "No " \o ResourceTypeGitRepository \o " resources found"]
    ELSE [shows |-> "table", columns |-> cols, rows |-> rws, cursor |-> cur]

\* View(): the placeholder text (its colour left out), or the table's view.
View(type, rs, cols, rws, cur) ==
    IF Len(rs) = 0
    THEN [shows |-> "placeholder", text |-> "No " \o type \o " resources found"]
    ELSE [shows |-> "table", columns |-> cols, rows |-> rws, cursor |-> cur]

\* GetSelectedResource(): a pointer to the element at the table's cursor, or
\* nil (cur counts from 0, the sequence from 1).
GetSelectedResource(rs, cur) ==
    IF cur >= 0 /\ cur < Len(rs)
    THEN [nil |-> FALSE, resource |-> rs[cur + 1]]
    ELSE [nil |-> TRUE, resource |-> ZeroResource]

\* The keys Update receives: msg.Type for the keys it switches on by type,
\* msg.String() for the others ("x": a key the view has no case for).
TypeKeys == {"down", "up", "left", "right", "pgdown", "pgup", "home", "end",
             "enter", "space"}
StringKeys == {"j", "k", "ctrl+d", "ctrl+u", "g", "G", "H", "M", "L", "x"}
Keys == TypeKeys \cup StringKeys

\* for i := 0; i < n; i++ { v.table, _ = v.table.Update(KeyMsg{Type: KeyDown}) }
RECURSIVE RepeatKeyDown(_, _, _, _)
RepeatKeyDown(n, cur, rws, th) ==
    IF n <= 0 THEN cur
    ELSE RepeatKeyDown(n - 1, TableUpdate("down", cur, rws, th), rws, th)

\* Update(tea.KeyMsg): the table's cursor after the key.
UpdateCursor(key, rs, rws, cur, th) ==
    CASE key \in {"down", "up", "left", "right", "pgdown", "pgup"} ->
            TableUpdate(key, cur, rws, th)
      [] key = "home" -> IF Len(rs) > 0 THEN TableGotoTop(cur, rws) ELSE cur
      [] key = "end" -> IF Len(rs) > 0 THEN TableGotoBottom(cur, rws) ELSE cur
      [] key \in {"enter", "space"} -> cur
      [] key = "j" -> TableUpdate("down", cur, rws, th)
      [] key = "k" -> TableUpdate("up", cur, rws, th)
      [] key = "ctrl+d" -> TableUpdate("pgdown", cur, rws, th)
      [] key = "ctrl+u" -> TableUpdate("pgup", cur, rws, th)
      [] key = "g" -> IF Len(rs) > 0 THEN TableGotoTop(cur, rws) ELSE cur
      [] key = "G" -> IF Len(rs) > 0 THEN TableGotoBottom(cur, rws) ELSE cur
      [] key = "H" -> IF Len(rs) > 0 THEN TableGotoTop(cur, rws) ELSE cur
      [] key = "M" -> IF Len(rs) > 0
                      THEN RepeatKeyDown(Len(rs) \div 2, cur, rws, th)
                      ELSE cur
      [] key = "L" -> IF Len(rs) > 0 THEN TableGotoBottom(cur, rws) ELSE cur
      [] OTHER -> cur

\* Update(tea.KeyMsg) for the key named key
UpdateKey(key) ==
    /\ cursor' = UpdateCursor(key, resources, rows, cursor, tableHeight)
    /\ UNCHANGED <<config, resourceType, resources, width, height, columns, rows,
                   tableHeight>>
    /\ UNCHANGED <<lvars, mvars>>

Update == \E key \in Keys : UpdateKey(key)

\* The Resources whose row is formatted one at a time: every status length
\* around the limit of 12, suspended or not, every age around a unit's limit.
StatusInputs ==
    {"", "True", "Succeeded", "Unauthorized", "InstallFailed", "UninstallFailed",
     "ReconciliationSucceeded"}
AgeInputs == {0, 45, 59, 60, 90, 3599, 3600, 3700, 86399, 86400, 90000, 172799}
RowInputs ==
    { [ZeroResource EXCEPT !.type = ResourceTypeHelmRelease, !.name = "a",
                           !.status = s, !.suspended = b, !.age = d,
                           !.chart = "podinfo"]
        : s \in StatusInputs, b \in BOOLEAN, d \in AgeInputs }

RowSetResources == \E r \in RowInputs : SetResourcesTo(<<r>>)

RowSetResourceType == \E type \in ResourceTypes : SetResourceTypeTo(type)

\* The longest resource sequence of a view that receives keys.
MaxRows == 3

\* The calls and keys of a view that receives keys: sequences of the two
\* Kustomizations, every kind, a short and a tall viewport.
NavResources == { r \in ViewResources : r.type = ResourceTypeKustomization }
NavHeights == {4, 24}

NavSetResources == \E rs \in SeqsUpTo(NavResources, MaxRows) : SetResourcesTo(rs)

NavSetResourceType == \E type \in ResourceTypes : SetResourceTypeTo(type)

NavSetSize == \E h \in NavHeights : SetSizeTo(120, h)

\* ----------------------------------------------------------- specifications

ListIdle ==
    /\ lop = "none"
    /\ handle = "ok"
    /\ ctxNil = FALSE
    /\ calls = <<>>
    /\ lres = NoResult

MutationIdle ==
    /\ mpc = "idle"
    /\ mop = NoMop
    /\ fetched = NoObject
    /\ mcalls = <<>>
    /\ mres = NilErr
    /\ clock = 0

Configs == [ColumnsName : {30}, ColumnsStatus : {15}, ShowNamespace : BOOLEAN]

\* A view freshly made by NewResourceView(cfg).
ViewNew(cfg) ==
    /\ config = cfg
    /\ resourceType = ResourceTypeGitRepository
    /\ resources = <<>>
    /\ width = 0
    /\ height = 0
    /\ columns = << MkColumn("Name", cfg.ColumnsName), MkColumn("Ready", 8),
                    MkColumn("Status", cfg.ColumnsStatus), MkColumn("Age", 10),
                    MkColumn("Message", 40) >>
    /\ rows = <<>>
    /\ tableHeight = 10
    /\ cursor = 0

\* The view after SetResourceType(type) and SetResources(rs).
ViewShowing(cfg, type, rs) ==
    /\ config = cfg
    /\ resourceType = type
    /\ resources = rs
    /\ width = 0
    /\ height = 0
    /\ columns = TableColumns(cfg, type, 0)
    /\ rows = [i \in 1..Len(rs) |-> createTableRow(cfg, type, rs[i])]
    /\ tableHeight = 10
    /\ cursor = 0

ListInit ==
    /\ ListIdle
    /\ MutationIdle
    /\ store = NoObject
    /\ served = AllVersions
    /\ ViewNew([ColumnsName |-> 30, ColumnsStatus |-> 15, ShowNamespace |-> FALSE])

ListNext ==
    \/ ListGitRepositories
    \/ ListHelmRepositories
    \/ ListKustomizations
    \/ ListHelmReleases

\* One call of one list operation: the client keeps no state between calls.
ListSpec == ListInit /\ [][ListNext]_vars

\* The objects a cluster starts with: one object named "a" of some kind,
\* suspended or not, with or without an annotation of somebody else's.
StoredObjects ==
    { MkStored(k, "a", susp, <<>>, ann, 1) :
        k \in ResourceTypes, susp \in BOOLEAN,
        ann \in { NoAnnotations, [x \in {"owner"} |-> "team-a"] } }

\* The view shows the listing of the cluster's object.
MutationInit ==
    /\ ListIdle
    /\ MutationIdle
    /\ store \in StoredObjects
    /\ served \in ServedSets
    /\ ViewShowing([ColumnsName |-> 30, ColumnsStatus |-> 15, ShowNamespace |-> FALSE],
                   store.kind, <<MkResource(store.kind, store, ZeroStatus)>>)

MutationNext ==
    \/ SuspendResource
    \/ ResumeResource
    \/ ReconcileResource
    \/ updateSuspendStatusUpdate
    \/ ReconcileResourceUpdate
    \/ ConcurrentModification
    \/ Tick

\* Suspend, resume and reconcile against a cluster another writer also
\* updates; an operation is two steps, c.Get and c.Update, and nothing else of
\* the client runs between them.
MutationSpec == MutationInit /\ [][MutationNext]_vars

ViewInit ==
    /\ ListIdle
    /\ MutationIdle
    /\ store = NoObject
    /\ served = AllVersions
    /\ \E cfg \in Configs : ViewNew(cfg)

ViewNext ==
    \/ SetResources
    \/ SetResourceType
    \/ SetSize

\* The view under any sequence of the calls its owner makes.
ViewSpec == ViewInit /\ [][ViewNext]_vars

RowInit ==
    /\ ListIdle
    /\ MutationIdle
    /\ store = NoObject
    /\ served = AllVersions
    /\ \E cfg \in Configs : ViewNew(cfg)

RowNext ==
    \/ RowSetResources
    \/ RowSetResourceType

\* The row formatter applied to one Resource at a time, under every kind.
RowSpec == RowInit /\ [][RowNext]_vars

NavInit ==
    /\ ListIdle
    /\ MutationIdle
    /\ store = NoObject
    /\ served = AllVersions
    /\ ViewNew([ColumnsName |-> 30, ColumnsStatus |-> 15, ShowNamespace |-> FALSE])

NavNext ==
    \/ NavSetResources
    \/ NavSetResourceType
    \/ NavSetSize
    \/ Update

\* The view under any sequence of calls and keys: one transition at a time.
NavSpec == NavInit /\ [][NavNext]_vars

\* ------------------------------------------------------------ list: claims

\* The classification rule of the Error Classifier: the not-found predicate
\* holds, or the message contains one of the three fixed phrases.
KindNotInstalled(e) ==
    \/ e.notFound
    \/ Contains(e.msg, <<"no matches for kind">>)
    \/ Contains(e.msg, <<"could not find the requested resource">>)
    \/ Contains(e.msg, <<"the server ", "could not find the requested resource">>)

\* The list call i failed, and how the failure is classified.
FailedKindNotInstalled(i) == ~calls[i].err.nil /\ KindNotInstalled(calls[i].err)
FailedOther(i) == ~calls[i].err.nil /\ ~KindNotInstalled(calls[i].err)

ReadyRuleOps == {"ListGitRepositories", "ListKustomizations", "ListHelmReleases"}

\* The operation made one list call, which succeeded.
PrimarySucceeded == Len(calls) = 1 /\ calls[1].err.nil

CarriesReadyTrue(conds) ==
    \E i \in 1..Len(conds) : conds[i].type = "Ready" /\ conds[i].status = "True"

LastReadyIsTrue(conds) ==
    \E i \in 1..Len(conds) :
        /\ conds[i].type = "Ready" /\ conds[i].status = "True"
        /\ \A j \in (i + 1)..Len(conds) : conds[j].type # "Ready"

\* C1 as stated: a Resource of ListGitRepositories, ListKustomizations or
\* ListHelmReleases is ready iff its object carries some condition of type
\* "Ready" with status "True", also when it carries several Ready conditions.
C1_ReadyIffSomeReadyTrue ==
    (lop \in ReadyRuleOps /\ PrimarySucceeded) =>
        /\ Len(lres.resources) = Len(calls[1].outcome.items)
        /\ \A i \in 1..Len(lres.resources) :
              lres.resources[i].ready <=> CarriesReadyTrue(calls[1].outcome.items[i].conds)

\* C1 amended: the Resource is ready iff the last condition of type "Ready"
\* its object carries has status "True" (with at most one Ready condition:
\* iff it carries Ready/True).
C1_ReadyIffLastReadyTrue ==
    (lop \in ReadyRuleOps /\ PrimarySucceeded) =>
        /\ Len(lres.resources) = Len(calls[1].outcome.items)
        /\ \A i \in 1..Len(lres.resources) :
              lres.resources[i].ready <=> LastReadyIsTrue(calls[1].outcome.items[i].conds)

\* C1 witness: an object with two Ready conditions, the last one True, the
\* first one not, was listed and its Resource is ready.
C1_Witness ==
    /\ lop \in ReadyRuleOps /\ PrimarySucceeded
    /\ \E i \in 1..Len(lres.resources) :
          LET conds == calls[1].outcome.items[i].conds
          IN  /\ Len(conds) = 2
              /\ conds[1].type = "Ready" /\ conds[1].status # "True"
              /\ conds[2].type = "Ready" /\ conds[2].status = "True"
              /\ lres.resources[i].ready

\* ready, status and message as the condition of type "Ready" gives them
\* (the last one, should there be several); the zero values without one.
FromReadyCondition(conds) ==
    LET idx == { i \in 1..Len(conds) : conds[i].type = "Ready" }
    IN  IF idx = {} THEN [ready |-> FALSE, status |-> "", message |-> ""]
        ELSE LET c == conds[CHOOSE i \in idx : \A j \in idx : j <= i]
             IN  [ready |-> c.status = "True", status |-> c.reason, message |-> c.message]

\* C2: when the primary-version list of ListHelmRepositories succeeds, ready,
\* status and message of each Resource come from the condition of type
\* "Ready", not from the last condition in the list.
C2_PrimaryUsesReadyCondition ==
    (lop = "ListHelmRepositories" /\ PrimarySucceeded) =>
        \A i \in 1..Len(lres.resources) :
            LET d == FromReadyCondition(calls[1].outcome.items[i].conds)
                r == lres.resources[i]
            IN  r.ready = d.ready /\ r.status = d.status /\ r.message = d.message

\* C3: ListHelmRepositories issues the fallback-version list iff the
\* primary-version list failed with a KindNotInstalled failure, at most once
\* and after the primary one (at most two list calls); when the fallback
\* list succeeds, its items are what is returned.
C3_FallbackExactlyOnce ==
    (lop = "ListHelmRepositories") =>
        LET fallback == { i \in 1..Len(calls) : calls[i].version = HelmRepositoryV1 }
        IN  /\ Len(calls) <= 2
            /\ Cardinality(fallback) <= 1
            /\ \A i \in 1..Len(calls) :
                  calls[i].version = (IF i = 1 THEN HelmRepositoryV1beta2 ELSE HelmRepositoryV1)
            /\ (fallback # {}) <=> (Len(calls) >= 1 /\ FailedKindNotInstalled(1))
            /\ \A i \in fallback :
                  calls[i].err.nil =>
                      /\ lres.err.nil
                      /\ Len(lres.resources) = Len(calls[i].outcome.items)
                      /\ \A k \in 1..Len(lres.resources) :
                            /\ lres.resources[k].type = "HelmRepository"
                            /\ lres.resources[k].name = calls[i].outcome.items[k].name
                            /\ lres.resources[k].conditions = calls[i].outcome.items[k].conds

\* C3 witness: the primary list failed KindNotInstalled, the fallback list
\* succeeded with two objects, and both are returned.
C3_Witness ==
    /\ lop = "ListHelmRepositories"
    /\ Len(calls) = 2
    /\ FailedKindNotInstalled(1)
    /\ calls[2].err.nil
    /\ Len(calls[2].outcome.items) = 2
    /\ Len(lres.resources) = 2

\* The API versions each list operation has for its kind.
VersionsOf(op) ==
    IF op = "ListGitRepositories" THEN {GitRepositoryV1}
    ELSE IF op = "ListHelmRepositories" THEN {HelmRepositoryV1beta2, HelmRepositoryV1}
    ELSE IF op = "ListKustomizations" THEN {KustomizationV1}
    ELSE IF op = "ListHelmReleases" THEN {HelmReleaseV2beta1}
    ELSE {}

AllVersionsKindNotInstalled ==
    /\ lop # "none"
    /\ \A v \in VersionsOf(lop) :
          \E i \in 1..Len(calls) : calls[i].version = v /\ FailedKindNotInstalled(i)

\* C4: when every API version of the kind fails with a KindNotInstalled
\* failure, the list operation returns an empty sequence and no error.
C4_AllMissingIsEmpty ==
    AllVersionsKindNotInstalled =>
        lres.err.nil /\ lres.resources = <<>> /\ ~lres.nilSlice

\* C4 witness: both HelmRepository versions failed KindNotInstalled, the
\* fallback one by the not-found predicate.
C4_Witness ==
    /\ lop = "ListHelmRepositories"
    /\ AllVersionsKindNotInstalled
    /\ calls[2].err.notFound
    /\ lres.resources = <<>>

\* C5 as stated: a failure classified Other is the last list call, the
\* operation returns an error and no resources, and the error wraps it.
C5_OtherIsWrapped ==
    \A i \in 1..Len(calls) :
        FailedOther(i) =>
            /\ i = Len(calls)
            /\ ~lres.err.nil
            /\ lres.resources = <<>>
            /\ Wraps(lres.err, calls[i].err)

\* C5 amended: a failure classified Other is the last list call, the
\* operation returns an error and no resources, and the error's message
\* contains the failure's message; the error wraps the failure at the primary
\* stage, and at the HelmRepository fallback stage it wraps the primary
\* failure instead, not the fallback failure.
C5_OtherIsReturned ==
    \A i \in 1..Len(calls) :
        FailedOther(i) =>
            /\ i = Len(calls)
            /\ ~lres.err.nil
            /\ lres.resources = <<>>
            /\ Contains(lres.err.msg, calls[i].err.msg)
            /\ (i = 1 => Wraps(lres.err, calls[1].err))
            /\ (i = 2 => Wraps(lres.err, calls[1].err) /\ ~Wraps(lres.err, calls[2].err))

\* C5 witness: the fallback list of ListHelmRepositories failed with an
\* Other failure.
C5_Witness ==
    /\ lop = "ListHelmRepositories"
    /\ Len(calls) = 2
    /\ FailedOther(2)
    /\ ~lres.err.nil

\* C9: a panic inside a list call makes the list operation return an error,
\* whatever the panic's text is.
C9_PanicIsAnError ==
    \A i \in 1..Len(calls) :
        calls[i].outcome.kind = "panic" => ~lres.err.nil

GuardMessages ==
    { <<"kubernetes client is nil">>, <<"embedded kubernetes client is nil">>,
      <<"context is nil">> }

\* C10: called with a nil client handle or a nil context, every list
\* operation returns a descriptive error with no list call issued.
C10_NilGuardsEverywhere ==
    (lop # "none" /\ (handle # "ok" \/ ctxNil)) =>
        /\ calls = <<>>
        /\ ~lres.err.nil
        /\ lres.err.msg \in GuardMessages

\* -------------------------------------------------------- mutation: claims

MutationSucceeded == mpc = "done" /\ mres.nil
MutationFailed == mpc = "done" /\ ~mres.nil

\* Every field but the suspend flag is the same in both objects.
SameButSuspend(g, w) ==
    /\ w.kind = g.kind /\ w.name = g.name /\ w.conds = g.conds
    /\ w.annotations = g.annotations /\ w.rv = g.rv

\* Every field and every annotation but requestedAt is the same in both.
SameButRequestedAt(g, w) ==
    /\ w.kind = g.kind /\ w.name = g.name /\ w.conds = g.conds
    /\ w.suspend = g.suspend /\ w.rv = g.rv
    /\ DOMAIN w.annotations = (DOMAIN g.annotations) \cup {"reconcile.fluxcd.io/requestedAt"}
    /\ \A k \in (DOMAIN g.annotations) \ {"reconcile.fluxcd.io/requestedAt"} :
          w.annotations[k] = g.annotations[k]

\* C6: a mutation that succeeded made exactly one get and then one update
\* of the object named in the call, and the object written is the object
\* fetched but for the suspend flag, set as requested, or but for the
\* annotation reconcile.fluxcd.io/requestedAt.
C6_OneGetOneUpdate ==
    MutationSucceeded =>
        /\ Len(mcalls) = 2
        /\ mcalls[1].verb = "get" /\ mcalls[2].verb = "update"
        /\ mcalls[1].name = mop.name /\ mcalls[2].name = mop.name
        /\ mcalls[2].version = mcalls[1].version
        /\ mcalls[1].obj.kind = mop.type /\ mcalls[2].obj.kind = mop.type
        /\ IF mop.fn = "ReconcileResource"
           THEN SameButRequestedAt(mcalls[1].obj, mcalls[2].obj)
           ELSE /\ SameButSuspend(mcalls[1].obj, mcalls[2].obj)
                /\ mcalls[2].obj.suspend = (mop.fn = "SuspendResource")

\* C6 witness: an object that was not suspended and carries another
\* annotation was suspended.
C6_Witness ==
    /\ MutationSucceeded
    /\ mop.fn = "SuspendResource"
    /\ ~mcalls[1].obj.suspend
    /\ mcalls[2].obj.suspend
    /\ "owner" \in DOMAIN mcalls[1].obj.annotations
    /\ store.suspend

\* The calls of a failed mutation: none (unsupported type), a failed get, or
\* a get and a failed update.
FailedCalls ==
    \/ mcalls = <<>>
    \/ Len(mcalls) = 1 /\ mcalls[1].verb = "get" /\ ~mcalls[1].err.nil
    \/ /\ Len(mcalls) = 2
       /\ mcalls[1].verb = "get" /\ mcalls[1].err.nil
       /\ mcalls[2].verb = "update" /\ ~mcalls[2].err.nil

\* C7: the step in which a mutation fails leaves the cluster object and the
\* view's resources as they were, and the failed mutation made no call
\* after the one that failed: no update after a failed get, no second get or
\* update after a failed update.
C7_FailureChangesNothing ==
    [][ (<<mpc, mop, mcalls, mres>>' # <<mpc, mop, mcalls, mres>> /\ MutationFailed') =>
            /\ store' = store
            /\ resources' = resources
            /\ resourceType' = resourceType
            /\ FailedCalls' ]_vars

\* C7 witness: an update was refused because the object had been modified
\* since the get.
C7_Witness ==
    /\ MutationFailed
    /\ Len(mcalls) = 2
    /\ mcalls[2].err = ErrConflict
    /\ store.rv # mcalls[1].obj.rv
    /\ resources # <<>>

\* ------------------------------------------------------------ view: claims

\* C8: every Resource the view holds is of the view's current resource kind
\* (a result fetched for another selection is never held).
C8_ResourcesOfSelectedKind ==
    \A i \in 1..Len(resources) : resources[i].type = resourceType

\* The list operation returned the Resources it mapped from a list response:
\* its last list call succeeded.
MappedFromResponse ==
    /\ lop # "none"
    /\ lres.err.nil
    /\ Len(calls) > 0
    /\ calls[Len(calls)].err.nil

\* The items of the list response the result was mapped from.
ResponseItems == calls[Len(calls)].outcome.items

\* C11: a successful list maps the items of the list response one to one and
\* in order: the result is as long as the response, its i-th Resource comes
\* from the i-th item, and the Resource's conditions are the item's
\* conditions, in the same order, with the same type, status, reason and
\* message; nothing is sorted, filtered or de-duplicated.
C11_OneToOneInOrder ==
    MappedFromResponse =>
        /\ Len(lres.resources) = Len(ResponseItems)
        /\ \A i \in 1..Len(ResponseItems) :
              /\ lres.resources[i].name = ResponseItems[i].name
              /\ lres.resources[i].suspended = ResponseItems[i].suspend
              /\ Len(lres.resources[i].conditions) = Len(ResponseItems[i].conds)
              /\ \A j \in 1..Len(ResponseItems[i].conds) :
                    LET c == lres.resources[i].conditions[j]
                        d == ResponseItems[i].conds[j]
                    IN  /\ c.type = d.type
                        /\ c.status = d.status
                        /\ c.reason = d.reason
                        /\ c.message = d.message

\* A response of two items that no sorting by name would leave in place, one
\* of them with a condition, was mapped.
C11_Witness ==
    /\ MappedFromResponse
    /\ lop = "ListGitRepositories"
    /\ Len(ResponseItems) = 2
    /\ ResponseItems[1].name = "b"
    /\ ResponseItems[2].name = "a"
    /\ ResponseItems[2].conds # <<>>
    /\ Len(lres.resources) = 2

\* A response that holds the same item twice was mapped to two Resources.
C11_WitnessDuplicate ==
    /\ MappedFromResponse
    /\ Len(ResponseItems) = 2
    /\ ResponseItems[1] = ResponseItems[2]
    /\ Len(lres.resources) = 2

\* ------------------------------------------------------------ view: claims

\* A step of one of the three calls that lay the columns out again.
LayoutCall == SetSize \/ SetResources \/ SetResourceType

\* The flexible width computed for a view of kind type and width w:
\* (w - sum of the fixed column widths - 10) / number of flexible columns.
ComputedWidth(cfg, type, w) == FlexWidth(BaseColumns(cfg, type), w)

\* The 20-unit floor of a flexible column.
FlexFloor == 20

\* C12: after resize(width, height) with width > 0, whenever the computed
\* width exceeds the 20-unit floor, every flexible column of the table has
\* exactly the computed width.
C12_FlexColumnsTakeComputedWidth ==
    [][(SetSize /\ width' > 0
          /\ ComputedWidth(config', resourceType', width') > FlexFloor)
        => \A i \in 1..Len(columns') :
              IsFlexColumn(columns'[i]) =>
                  columns'[i].width = ComputedWidth(config', resourceType', width')]_vars

\* The width of the column titled title in cols (0 when there is none).
WidthOf(cols, title) ==
    IF \E i \in 1..Len(cols) : cols[i].title = title
    THEN (CHOOSE c \in { cols[i] : i \in 1..Len(cols) } : c.title = title).width
    ELSE 0

\* No flexible column of cols is narrower than the floor.
FloorHolds(cols) ==
    \A i \in 1..Len(cols) : IsFlexColumn(cols[i]) => cols[i].width >= FlexFloor

\* The call computed no width for the flexible columns, or one below the floor.
BelowFloor(cfg, type, w) == w = 0 \/ ComputedWidth(cfg, type, w) < FlexFloor

\* C13 as stated: after any of the three calls no flexible column is narrower
\* than 20, and when the computed width would fall below the floor, or the
\* reported width is 0, each flexible column keeps the width it had before
\* the call.
C13_FloorAndPreviousWidthKept ==
    [][LayoutCall =>
        /\ FloorHolds(columns')
        /\ BelowFloor(config', resourceType', width') =>
              \A i \in 1..Len(columns') :
                  (IsFlexColumn(columns'[i]) /\ WidthOf(columns, columns'[i].title) # 0)
                      => columns'[i].width = WidthOf(columns, columns'[i].title)]_vars

\* C13 as amended: after any of the three calls no flexible column is
\* narrower than 20, and when the reported width is 0 or negative, or the
\* computed width is not above the floor, the table has the columns of the
\* selected kind at their built-in widths (Message 35, URL 40, Source/Path
\* 30), whatever width they had before the call.
C13_FloorAndBuiltInWidths ==
    [][LayoutCall =>
        /\ FloorHolds(columns')
        /\ (width' <= 0 \/ ComputedWidth(config', resourceType', width') <= FlexFloor)
              => columns' = BaseColumns(config', resourceType')]_vars

\* The view was resized to a width whose computed flexible width is below the
\* floor, and shows the columns of its kind.
C13_Witness ==
    /\ width > 0
    /\ ComputedWidth(config, resourceType, width) < FlexFloor
    /\ Len(columns) = 6
    /\ tableHeight = height - 2

StatusCell(r) ==
    LET shown == IF r.suspended THEN "Suspended"
                 ELSE IF r.status = "" THEN "Unknown"
                 ELSE r.status
    IN  IF Len(shown) <= 12 THEN shown ELSE SubSeq(shown, 1, 9) \o Ellipsis

\* C16: the status cell of every row is "Suspended" when the resource is
\* suspended (whatever its status), otherwise "Unknown" when the status is
\* empty, otherwise the status; shown unmodified up to 12 characters and as
\* its first 9 characters plus one ellipsis marker beyond 12 (15 characters
\* are cut, 12 are not).
C16_StatusCell ==
    \A i \in DOMAIN rows :
        /\ rows[i][3] = StatusCell(resources[i])
        /\ resources[i].suspended => rows[i][3] = "Suspended"
        /\ (~resources[i].suspended /\ resources[i].status = "UninstallFailed")
              => rows[i][3] = "Uninstall" \o Ellipsis
        /\ (~resources[i].suspended /\ resources[i].status = "Unauthorized")
              => rows[i][3] = "Unauthorized"

\* A row was formatted for a resource with a status of 13 characters, the
\* shortest that is cut.
C16_Witness ==
    /\ Len(rows) = 1
    /\ ~resources[1].suspended
    /\ Len(resources[1].status) = 13
    /\ Len(rows[1][3]) = 9 + Len(Ellipsis)

\* The age cell for a duration of s whole seconds, s >= 0: the floor of the
\* count at the unit the duration falls in.
AgeCell(s) ==
    IF s < 60 THEN ToString(s) \o "s"
    ELSE IF s < 3600 THEN ToString(s \div 60) \o "m"
    ELSE IF s < 86400 THEN ToString(s \div 3600) \o "h"
    ELSE ToString(s \div 86400) \o "d"

\* C17: for every non-negative duration of s whole seconds, formatAge gives
\* s and "s" below 60, floor(s/60) and "m" from 60 below 3600, floor(s/3600)
\* and "h" from 3600 below 86400, floor(s/86400) and "d" from 86400 on
\* (45 -> 45s, 90 -> 1m, 3700 -> 1h, 90000 -> 1d).
C17_FormatAge ==
    \A i \in DOMAIN rows :
        LET s == resources[i].age
        IN  /\ s >= 0 => rows[i][4] = AgeCell(s)
            /\ s = 45 => rows[i][4] = "45s"
            /\ s = 90 => rows[i][4] = "1m"
            /\ s = 3700 => rows[i][4] = "1h"
            /\ s = 90000 => rows[i][4] = "1d"

\* A row was formatted for an age of exactly one hour, shown in hours.
C17_Witness ==
    /\ Len(rows) = 1
    /\ resources[1].age = 3600
    /\ rows[1][4] = "1h"

\* What View() returns in the current state.
Rendered == View(resourceType, resources, columns, rows, cursor)

\* C18: in every reachable state of the view, rendering shows the
\* "No <kind> resources found" placeholder, naming the currently selected
\* kind, if and only if the resource sequence is empty; otherwise it shows
\* the table.
C18_PlaceholderIffEmpty ==
    /\ resources = <<>> <=> Rendered.shows = "placeholder"
    /\ resources # <<>> <=> Rendered.shows = "table"
    /\ \A k \in ResourceTypes :
          (resources = <<>> /\ resourceType = k)
              => Rendered.text = "No " \o k \o " resources found"
    /\ resources # <<>> => Rendered.rows = rows

\* A view switched to Kustomization, emptied after it had shown resources and
\* resized, renders the placeholder.
C18_Witness ==
    /\ resources = <<>>
    /\ resourceType = ResourceTypeKustomization
    /\ width > 0
    /\ Len(columns) = 6
    /\ Rendered.text = "No Kustomization resources found"

\* How the operation treated the failure of its list call i: as a missing
\* kind when it went on to the fallback list (the first call of
\* ListHelmRepositories) or returned an empty sequence and no error (every
\* other call); as another failure when it returned an error.
TreatedAsMissing(i) ==
    IF lop = "ListHelmRepositories" /\ i = 1
    THEN Len(calls) = 2 /\ calls[2].version = HelmRepositoryV1
    ELSE i = Len(calls) /\ lres.err.nil /\ lres.resources = <<>>

TreatedAsOther(i) == i = Len(calls) /\ ~lres.err.nil

\* C19: a failure of a list call is classified KindNotInstalled if and only
\* if the not-found predicate holds for it or its message contains one of the
\* three fixed substrings, and this is so at each of the five classification
\* sites (the four primary lists and the HelmRepository fallback list): the
\* same failure is classified the same way for every kind and stage.
C19_SameClassifierEverywhere ==
    \A i \in 1..Len(calls) :
        ~calls[i].err.nil =>
            /\ TreatedAsMissing(i) <=> KindNotInstalled(calls[i].err)
            /\ TreatedAsOther(i) <=> ~KindNotInstalled(calls[i].err)

\* ListKustomizations classified a failure that only the message phrases
\* (not the not-found predicate) make a missing kind.
C19_Witness ==
    /\ lop = "ListKustomizations"
    /\ Len(calls) = 1
    /\ ~calls[1].err.nil
    /\ ~calls[1].err.notFound
    /\ Contains(calls[1].err.msg, CouldNotFind)
    /\ TreatedAsMissing(1)

\* The index reached by floor(len/2) single-step-down moves from the top of
\* a table of len rows, len > 0.
MiddleFromTop(len) == Clamp(len \div 2, 0, len - 1)

\* C20: on a non-empty resource sequence, after the key M the cursor is at
\* the index reached by floor(len(resources)/2) single-step-down moves
\* starting from the top (clamped to the last row), whatever the cursor
\* position was before the key; a second M leaves the cursor where the first
\* left it.
C20_MGoesToMiddle ==
    [][(resources # <<>> /\ UpdateKey("M")) =>
          /\ cursor' = MiddleFromTop(Len(resources))
          /\ UpdateCursor("M", resources', rows', cursor', tableHeight') = cursor']_vars

\* The title of the trailing column of each kind.
TrailingColumn(type) ==
    CASE type = ResourceTypeGitRepository -> "URL"
      [] type = ResourceTypeHelmRepository -> "URL"
      [] type = ResourceTypeKustomization -> "Source/Path"
      [] type = ResourceTypeHelmRelease -> "Chart"

\* C21: after every completed setResources, setResourceKind or resize call,
\* in any order and for any of the four kinds, the table has exactly one row
\* per Resource, in the order of the resource sequence, and every row has
\* exactly as many cells as the table has columns: the five base columns and
\* the trailing column of the kind.
C21_RowsMatchColumns ==
    [][LayoutCall =>
        /\ Len(rows') = Len(resources')
        /\ Len(columns') = 6
        /\ [i \in 1..5 |-> columns'[i].title]
              = <<"Name", "Ready", "Status", "Age", "Message">>
        /\ columns'[6].title = TrailingColumn(resourceType')
        /\ \A i \in 1..Len(rows') :
              /\ Len(rows'[i]) = Len(columns')
              /\ rows'[i][1] = RowName(config', resources'[i])
              /\ rows'[i][4] = formatAge(resources'[i].age)]_vars

\* A resized view of kind HelmRelease shows two Resources that sorting by
\* name would swap.
C21_Witness ==
    /\ resourceType = ResourceTypeHelmRelease
    /\ width > 0
    /\ Len(resources) = 2
    /\ resources[1].name = "b"
    /\ resources[2].name = "a"
    /\ Len(rows) = 2
    /\ Len(columns) = 6

\* What GetSelectedResource() returns in the current state.
Selected == GetSelectedResource(resources, cursor)

\* C22: after any sequence of setResources, setResourceKind, resize and key
\* events, GetSelectedResource returns nil if and only if the resource
\* sequence is empty; when it is non-empty the cursor is within
\* [0, len(resources)-1] and the Resource returned is the element of the
\* current sequence at the cursor index.
C22_SelectedIffNonEmpty ==
    /\ Selected.nil <=> resources = <<>>
    /\ resources # <<>> =>
          /\ cursor \in 0..(Len(resources) - 1)
          /\ Selected.resource = resources[cursor + 1]

\* The version suspend, resume and reconcile use for a HelmRepository; the
\* list operation asks for it first and falls back to v1.
HelmRepositoryPrimary ==
    <<ResourceTypeHelmRepository, "source.toolkit.fluxcd.io/v1beta2">>

\* The current mutation is of a HelmRepository.
OnHelmRepository == mop.type = ResourceTypeHelmRepository

\* The get of the current mutation failed and the list operations would
\* classify the failure as the kind not being installed.
GetFailedKindNotInstalled ==
    /\ Len(mcalls) >= 1
    /\ mcalls[1].verb = "get"
    /\ ~mcalls[1].err.nil
    /\ KindNotInstalled(mcalls[1].err)

\* C23: suspend, resume and reconcile of a HelmRepository get and update at
\* source.toolkit.fluxcd.io/v1beta2 only. A get that fails with a failure
\* classified as kind-not-installed ends the mutation with an error that
\* wraps the failure, after exactly one get and no update; where v1beta2 is
\* not served every mutation of a HelmRepository ends that way, and the
\* stored object keeps its suspend flag and its annotations.
C23_HelmRepositoryPrimaryVersionOnly ==
    [][ /\ OnHelmRepository' =>
             /\ \A i \in 1..Len(mcalls') : mcalls'[i].version = HelmRepositoryPrimary[2]
             /\ GetFailedKindNotInstalled' =>
                   /\ MutationFailed'
                   /\ Wraps(mres', mcalls'[1].err)
                   /\ Len(mcalls') = 1
             /\ (HelmRepositoryPrimary \notin served /\ mpc' = "done") =>
                   /\ MutationFailed'
                   /\ Len(mcalls') = 1
                   /\ mcalls'[1].verb = "get"
                   /\ ~mcalls'[1].err.nil
        /\ (HelmRepositoryPrimary \notin served /\ store.kind = ResourceTypeHelmRepository) =>
             /\ store'.suspend = store.suspend
             /\ store'.annotations = store.annotations ]_vars

\* C23 witness: the cluster holds a HelmRepository and serves it at v1 only;
\* a mutation of it has failed on its one get with no matches for the kind.
C23_Witness ==
    /\ HelmRepositoryPrimary \notin served
    /\ <<ResourceTypeHelmRepository, "source.toolkit.fluxcd.io/v1">> \in served
    /\ store.kind = ResourceTypeHelmRepository
    /\ OnHelmRepository
    /\ mop.name = store.name
    /\ MutationFailed
    /\ GetFailedKindNotInstalled
    /\ mcalls[1].err = ErrNoMatch
    /\ Len(mcalls) = 1
====
